---- MODULE Spec2Model ----
(***************************************************************************)
(* AuraVis: the scene-scan flow (describeSceneFlow, both variants kept in  *)
(* src/src/ai/flows/describe-scene.ts), the AuraVisUI component that       *)
(* drives it (handleRescan, generateAudio, handleVoiceChange,              *)
(* handleClearHistory, stopCamera/startCamera) and the per-user history    *)
(* log it writes to.                                                       *)
(*                                                                         *)
(* One AuraVisUI instance is modelled from mount to unmount.  Promises     *)
(* that are still pending at unmount keep running; their setState calls    *)
(* are no-ops then, their database writes are not.                         *)
(***************************************************************************)
EXTENDS Integers, Sequences, FiniteSets, TLC

\* ---------------------------------------------------------------- bounds
MaxScans == 1          \* scans started in one behaviour
MaxGens == 1           \* voice-change audio generations in one behaviour
MaxPendingCam == 1     \* getUserMedia requests pending at once

\* ------------------------------------------------------ program constants
MAX_HISTORY_ITEMS == 10

Placeholder == "Your scene description will appear here. Turn on the camera and scan to begin."
Analyzing == "Analyzing scene..."
ErrorMsg == "Could not get a description for the scene. Please try again."

\* ------------------------------------------------------------ input sets
NoUser == "null"
Users == {"u1"}
\* sceneDescription values the description service can put in its output
Texts == {"", "A quiet street at dusk."}
\* the other things a call to the prompt can do
Absent == "<no output>"
Threw == "<threw>"
Pending == "<pending>"
Voices == {"male", "female"}
EmptyUri == <<>>

VARIABLES
  \* AuraVisUI state
  mounted, user, isCameraOn, camPending, isLoading, isGeneratingAudio,
  audioSrc, currentDescription, voice, history,
  \* the handleRescan invocation in flight (its closure and its position)
  scanPc, scanUser, scanVoice, scanText, scanEntry, nScans,
  \* what the scan in flight has done so far
  scanDescCalls, scanSpeechCalls, scanSetCalls, scanReports, scanAudioStarted,
  scanOutcome, userActed, scanDisposed,
  \* describeSceneFlow on the server
  variant, flowPc, descOutput, ttsOutcome, encOutcome, flowResult, flowVoiceName,
  \* voice-change generateAudio calls in flight
  gens, nGens,
  \* realtime database
  log, issued, clock,
  \* camera: streamRef.current, and whether some acquired stream that the
  \* ref no longer holds still has live tracks
  streamRef, orphanLive,
  \* the audio step of the flow and toWav run on their own: position, input,
  \* the wav.Writer (options, bytes written, chunks emitted) and the result
  encPc, encIn, encWriter, encResult

uiVars == <<mounted, user, isCameraOn, camPending, isLoading, isGeneratingAudio,
            audioSrc, currentDescription, voice, history>>
scanVars == <<scanPc, scanUser, scanVoice, scanText, scanEntry, nScans>>
scanObs == <<scanDescCalls, scanSpeechCalls, scanSetCalls, scanReports,
             scanAudioStarted, scanOutcome, userActed, scanDisposed>>
flowVars == <<variant, flowPc, descOutput, ttsOutcome, encOutcome, flowResult,
              flowVoiceName>>
genVars == <<gens, nGens>>
dbVars == <<log, issued, clock>>
camVars == <<streamRef, orphanLive>>
encVars == <<encPc, encIn, encWriter, encResult>>
mainVars == <<uiVars, scanVars, scanObs, flowVars, genVars, dbVars, camVars>>
vars == <<mainVars, encVars>>

\* ------------------------------------------------------------- helpers

\* const voiceName = input.voice === 'male' ? 'Achernar' : 'Algenib';
VoiceName(v) == IF v = "male" THEN "Achernar" ELSE "Algenib"

\* voice: z.enum(['male', 'female']).default('female')
DefaultVoice == "female"

\* the voice field of the input handleRescan passes to describeScene: none
ScanInputVoice == "<absent>"

\* what the input schema makes of the voice field
ParseVoice(v) == IF v = "<absent>" THEN DefaultVoice ELSE v

\* if (!output) throw new Error('Could not generate scene description.');
OutputMissing(out) == out = Absent

\* the flow without its try/catch around the speech call
CatchesSpeechFailure_NoCatch(v) == FALSE

\* variant A wraps the speech call and the encoder in try/catch; variant B
\* lets the error out of the flow
CatchesSpeechFailure(v) == v = "A"

\* ref(db, `history/${user.uid}`)
HistoryRef(uid) == <<"history", uid>>

\* the handlers without their check of the user
HasUser_NoCheck(u) == TRUE

\* if (!user) ... return;
HasUser(u) == u # NoUser

\* generateAudio's early return
GenerateAudioSkips(text) ==
  text = "" \/ text = Placeholder \/ text = Analyzing

\* the data URI textToSpeech answers with for a text and a voice
SpeechUri(text, v) == <<"data:audio/wav;base64,", text, VoiceName(v)>>

\* the data URI describeSceneFlow builds from the encoder's output
FlowUri == <<"data:audio/wav;base64,", "wav">>

\* orderByChild('timestamp'): the entries by ascending timestamp, entries
\* with equal timestamps in key order
RECURSIVE OrderByTimestamp(_)
OrderByTimestamp(s) ==
  IF s = <<>> THEN <<>>
  ELSE LET e == s[Len(s)]
           r == OrderByTimestamp(SubSeq(s, 1, Len(s) - 1))
           k == Cardinality({i \in 1..Len(r) : r[i].timestamp <= e.timestamp})
       IN SubSeq(r, 1, k) \o <<e>> \o SubSeq(r, k + 1, Len(r))

\* limitToLast with the first entries kept instead
LimitToLast_First(s, n) == IF Len(s) <= n THEN s ELSE SubSeq(s, 1, n)

\* limitToLast(n)
LimitToLast(s, n) ==
  IF Len(s) <= n THEN s ELSE SubSeq(s, Len(s) - n + 1, Len(s))

\* Object.entries(snapshot.val()): the entries the query selected, in key
\* order (the order of the log)
SnapshotEntries(s, q) ==
  LET Selected(e) == \E i \in 1..Len(q) : q[i] = e
  IN SelectSeq(s, Selected)

\* .sort((a, b) => new Date(b.timestamp) - new Date(a.timestamp)): latest
\* first, entries with equal timestamps keep their order
RECURSIVE SortLatestFirst(_)
SortLatestFirst(s) ==
  IF s = <<>> THEN <<>>
  ELSE LET e == s[Len(s)]
           r == SortLatestFirst(SubSeq(s, 1, Len(s) - 1))
           k == Cardinality({i \in 1..Len(r) : r[i].timestamp >= e.timestamp})
       IN SubSeq(r, 1, k) \o <<e>> \o SubSeq(r, k + 1, Len(r))

\* the list the onValue listener hands to setHistory
ListRecent(s, limit) ==
  SortLatestFirst(SnapshotEntries(s, LimitToLast(OrderByTimestamp(s), limit)))

\* logs left by earlier sessions: none, and more entries than
\* the list shows, written by clients whose clocks disagree
OldEntry(i, t) == [id |-> i, description |-> "A quiet street at dusk.", timestamp |-> t]

OldLogs ==
  { <<>>,
    <<OldEntry(-11, -5), OldEntry(-10, -10), OldEntry(-9, -9), OldEntry(-8, -8),
      OldEntry(-7, -7), OldEntry(-6, -6), OldEntry(-5, -11), OldEntry(-4, -4),
      OldEntry(-3, -3), OldEntry(-2, -2), OldEntry(-1, -1)>> }

\* ------------------------------------------------- bytes and base64

\* '=' in a base64 string; the characters of the alphabet are 0..63
Pad == 64

\* buffer.toString('base64')
RECURSIVE Base64Encode(_)
Base64Encode(b) ==
  IF Len(b) = 0 THEN <<>>
  ELSE IF Len(b) = 1
    THEN <<b[1] \div 4, (b[1] % 4) * 16, Pad, Pad>>
  ELSE IF Len(b) = 2
    THEN <<b[1] \div 4, (b[1] % 4) * 16 + b[2] \div 16, (b[2] % 16) * 4, Pad>>
  ELSE <<b[1] \div 4, (b[1] % 4) * 16 + b[2] \div 16,
         (b[2] % 16) * 4 + b[3] \div 64, b[3] % 64>>
       \o Base64Encode(SubSeq(b, 4, Len(b)))

\* the characters of a string that are in the base64 alphabet
Base64Chars(c) ==
  LET InAlphabet(x) == x < Pad
  IN SelectSeq(c, InAlphabet)

RECURSIVE DecodeSextets(_)
DecodeSextets(c) ==
  IF Len(c) < 2 THEN <<>>
  ELSE IF Len(c) = 2
    THEN <<c[1] * 4 + c[2] \div 16>>
  ELSE IF Len(c) = 3
    THEN <<c[1] * 4 + c[2] \div 16, (c[2] % 16) * 16 + c[3] \div 4>>
  ELSE <<c[1] * 4 + c[2] \div 16, (c[2] % 16) * 16 + c[3] \div 4,
         (c[3] % 4) * 64 + c[4]>>
       \o DecodeSextets(SubSeq(c, 5, Len(c)))

\* Buffer.from(string, 'base64')
BufferFromBase64(c) == DecodeSextets(Base64Chars(c))

\* url.indexOf(','), counted from 1; 0 when there is none
RECURSIVE IndexOfComma(_, _)
IndexOfComma(url, i) ==
  IF i > Len(url) THEN 0
  ELSE IF url[i] = "," THEN i
  ELSE IndexOfComma(url, i + 1)

\* url.substring(url.indexOf(',') + 1)
AfterComma(url) == SubSeq(url, IndexOfComma(url, 1) + 1, Len(url))

\* the media.url the speech service answers with for PCM bytes
MediaUrl(pcm) ==
  <<"data:audio/L16;codec=pcm;rate=24000;base64", ",">> \o Base64Encode(pcm)

\* Buffer.concat with only the first chunk kept
BufferConcat_First(chunks) == IF chunks = <<>> THEN <<>> ELSE chunks[1]

\* Buffer.concat(bufs)
RECURSIVE BufferConcat(_)
BufferConcat(chunks) ==
  IF chunks = <<>> THEN <<>>
  ELSE chunks[1] \o BufferConcat(SubSeq(chunks, 2, Len(chunks)))

\* 'data:audio/wav;base64,' + (await toWav(audioBuffer))
WavDataUri(base64) == <<"data:audio/wav;base64,">> \o base64

\* the defaults of toWav's parameters
DefaultWavParams == [channels |-> 1, rate |-> 24000, sampleWidth |-> 2]

\* new wav.Writer({channels, sampleRate: rate, bitDepth: sampleWidth * 8})
WriterOptions(p) ==
  [channels |-> p.channels, sampleRate |-> p.rate, bitDepth |-> p.sampleWidth * 8]

\* --------------------------------------------------------------- Init
MainInit ==
  /\ mounted = TRUE
  /\ user \in Users
  /\ isCameraOn = FALSE
  /\ camPending = 0
  /\ isLoading = FALSE
  /\ isGeneratingAudio = FALSE
  /\ audioSrc = EmptyUri
  /\ currentDescription = Placeholder
  /\ voice = "female"
  /\ history = <<>>
  /\ scanPc = "idle"
  /\ scanUser = NoUser
  /\ scanVoice = "female"
  /\ scanText = Pending
  /\ scanEntry = [id |-> 0, description |-> "", timestamp |-> 0]
  /\ nScans = 0
  /\ scanDescCalls = 0
  /\ scanSpeechCalls = 0
  /\ scanSetCalls = 0
  /\ scanReports = 0
  /\ scanAudioStarted = FALSE
  /\ scanOutcome = "none"
  /\ userActed = FALSE
  /\ scanDisposed = FALSE
  /\ variant \in {"A", "B"}
  /\ flowPc = "Idle"
  /\ descOutput = Pending
  /\ ttsOutcome = Pending
  /\ encOutcome = Pending
  /\ flowResult = [sceneDescription |-> "", ttsAudioDataUri |-> EmptyUri]
  /\ flowVoiceName = VoiceName(DefaultVoice)
  /\ gens = {}
  /\ nGens = 0
  /\ log \in [Users -> OldLogs]
  /\ issued = {}
  /\ clock = 1
  /\ streamRef = "null"
  /\ orphanLive = FALSE

\* no writer yet
NoWriter == [options |-> WriterOptions(DefaultWavParams), constructed |-> FALSE,
             written |-> <<>>, emitted |-> <<>>]

NoResult == [kind |-> "none", uri |-> EmptyUri, base64 |-> <<>>, error |-> ""]

Init ==
  /\ MainInit
  /\ encPc = "off"
  /\ encIn = [caller |-> "flow", media |-> FALSE, pcm |-> <<>>,
              params |-> DefaultWavParams]
  /\ encWriter = NoWriter
  /\ encResult = NoResult


\* ------------------------------------------------------------ camera

\* setState on an unmounted component changes nothing
SetState(new, old) == IF mounted THEN new ELSE old

\* stopCamera: a scan whose description or speech call is pending at that
\* moment has been disposed of by the caller
DisposesScan == scanPc \in {"describe", "awaitAudio"}

\* stopCamera on the stream: the tracks of the stream the ref holds are
\* stopped and the ref is cleared; a stream the ref does not hold is not
\* touched
StopStream ==
  /\ streamRef' = "null"
  /\ UNCHANGED orphanLive

\* handleToggleCamera, isCameraOn branch: stopCamera()
ToggleCameraOff ==
  /\ mounted
  /\ isCameraOn
  /\ isCameraOn' = FALSE
  /\ scanDisposed' = (scanDisposed \/ DisposesScan)
  /\ userActed' = TRUE
  /\ UNCHANGED <<mounted, user, camPending, isLoading, isGeneratingAudio,
                 audioSrc, currentDescription, voice, history>>
  /\ UNCHANGED <<scanVars, flowVars, genVars, dbVars>>
  /\ UNCHANGED <<scanDescCalls, scanSpeechCalls, scanSetCalls, scanReports,
                 scanAudioStarted, scanOutcome>>
  /\ StopStream
  /\ UNCHANGED encVars

\* handleToggleCamera, else branch: startCamera() up to its await
ToggleCameraOn ==
  /\ mounted
  /\ ~isCameraOn
  /\ camPending < MaxPendingCam
  /\ camPending' = camPending + 1
  /\ userActed' = TRUE
  /\ UNCHANGED <<mounted, user, isCameraOn, isLoading, isGeneratingAudio,
                 audioSrc, currentDescription, voice, history>>
  /\ UNCHANGED <<scanVars, flowVars, genVars, dbVars>>
  /\ UNCHANGED <<scanDescCalls, scanSpeechCalls, scanSetCalls, scanReports,
                 scanAudioStarted, scanOutcome, scanDisposed>>
  /\ UNCHANGED camVars
  /\ UNCHANGED encVars

\* startCamera after `await getUserMedia(...)`: granted (the stream is put
\* in streamRef, whatever the ref held, and the camera is shown as on) or
\* denied
GetUserMediaReturns(granted) ==
  /\ camPending > 0
  /\ camPending' = camPending - 1
  /\ isCameraOn' = IF granted THEN SetState(TRUE, isCameraOn) ELSE isCameraOn
  /\ UNCHANGED <<mounted, user, isLoading, isGeneratingAudio,
                 audioSrc, currentDescription, voice, history>>
  /\ UNCHANGED <<scanVars, scanObs, flowVars, genVars, dbVars>>
  /\ IF granted
       THEN /\ streamRef' = "live"
            /\ orphanLive' = (orphanLive \/ streamRef = "live")
       ELSE UNCHANGED camVars
  /\ UNCHANGED encVars

\* the cleanup of the last effect: the view goes away, stopCamera() runs
Unmount ==
  /\ mounted
  /\ mounted' = FALSE
  /\ isCameraOn' = FALSE
  /\ scanDisposed' = (scanDisposed \/ DisposesScan)
  /\ userActed' = TRUE
  /\ UNCHANGED <<user, camPending, isLoading, isGeneratingAudio,
                 audioSrc, currentDescription, voice, history>>
  /\ UNCHANGED <<scanVars, flowVars, genVars, dbVars>>
  /\ UNCHANGED <<scanDescCalls, scanSpeechCalls, scanSetCalls, scanReports,
                 scanAudioStarted, scanOutcome>>
  /\ StopStream
  /\ UNCHANGED encVars

\* useAuth(): the authentication collaborator reports another user, or none
AuthStateChanged(u) ==
  /\ mounted
  /\ u # user
  /\ user' = u
  /\ userActed' = TRUE
  /\ UNCHANGED <<mounted, isCameraOn, camPending, isLoading, isGeneratingAudio,
                 audioSrc, currentDescription, voice, history>>
  /\ UNCHANGED <<scanVars, flowVars, genVars, dbVars>>
  /\ UNCHANGED <<scanDescCalls, scanSpeechCalls, scanSetCalls, scanReports,
                 scanAudioStarted, scanOutcome, scanDisposed>>
  /\ UNCHANGED camVars
  /\ UNCHANGED encVars

\* ------------------------------------------------------------ the scan

\* handleRescan up to `await describeScene(...)`.  The button is disabled
\* while !isCameraOn || isLoading; with the camera not ready or nobody
\* logged in the handler only shows a toast.
HandleRescan ==
  /\ mounted
  /\ isCameraOn
  /\ ~isLoading
  /\ HasUser(user)
  /\ nScans < MaxScans
  /\ nScans' = nScans + 1
  /\ isLoading' = TRUE
  /\ currentDescription' = Analyzing
  /\ audioSrc' = EmptyUri
  /\ scanPc' = "describe"
  /\ scanUser' = user
  /\ scanVoice' = voice
  /\ scanText' = Pending
  /\ scanDescCalls' = 1
  /\ scanSpeechCalls' = 0
  /\ scanSetCalls' = 0
  /\ scanReports' = 0
  /\ scanAudioStarted' = FALSE
  /\ scanOutcome' = "running"
  /\ userActed' = FALSE
  /\ scanDisposed' = FALSE
  /\ flowPc' = "DescribingScene"
  /\ descOutput' = Pending
  /\ ttsOutcome' = Pending
  /\ encOutcome' = Pending
  /\ flowResult' = [sceneDescription |-> "", ttsAudioDataUri |-> EmptyUri]
  /\ flowVoiceName' = VoiceName(ParseVoice(ScanInputVoice))
  /\ UNCHANGED <<mounted, user, isCameraOn, camPending, isGeneratingAudio,
                 voice, history, scanEntry, variant>>
  /\ UNCHANGED <<genVars, dbVars>>
  /\ UNCHANGED camVars
  /\ UNCHANGED encVars

\* handleRescan when canvas.getContext("2d") is null: no call is made
HandleRescanNoContext ==
  /\ mounted
  /\ isCameraOn
  /\ ~isLoading
  /\ HasUser(user)
  /\ nScans < MaxScans
  /\ nScans' = nScans + 1
  /\ isLoading' = FALSE
  /\ currentDescription' = Analyzing
  /\ audioSrc' = EmptyUri
  /\ scanDescCalls' = 0
  /\ scanSpeechCalls' = 0
  /\ scanSetCalls' = 0
  /\ scanReports' = 0
  /\ scanAudioStarted' = FALSE
  /\ scanOutcome' = "none"
  /\ userActed' = TRUE
  /\ scanDisposed' = FALSE
  /\ UNCHANGED <<mounted, user, isCameraOn, camPending, isGeneratingAudio,
                 voice, history>>
  /\ UNCHANGED <<scanPc, scanUser, scanVoice, scanText, scanEntry>>
  /\ UNCHANGED <<flowVars, genVars, dbVars>>
  /\ UNCHANGED camVars
  /\ UNCHANGED encVars

\* ------------------------------------------------- describeSceneFlow

\* `const {output} = await sceneAnalysisPrompt(input)` returns: no output
\* (or the call throws) ends the flow with an error; any output, whatever
\* its sceneDescription, goes on to ai.generate (the speech call)
DescriptionReturns(out) ==
  /\ flowPc = "DescribingScene"
  /\ descOutput' = out
  /\ IF out = Threw \/ OutputMissing(out)
       THEN /\ flowPc' = "Failed"
            /\ UNCHANGED <<scanSpeechCalls, flowVoiceName, flowResult>>
       ELSE /\ flowPc' = "SynthesizingSpeech"
            /\ flowVoiceName' = VoiceName(ParseVoice(ScanInputVoice))
            /\ flowResult' = [flowResult EXCEPT !.sceneDescription = out]
            /\ scanSpeechCalls' = scanSpeechCalls + 1
  /\ UNCHANGED <<variant, ttsOutcome, encOutcome>>
  /\ UNCHANGED <<uiVars, scanVars, genVars, dbVars>>
  /\ UNCHANGED <<scanDescCalls, scanSetCalls, scanReports, scanAudioStarted,
                 scanOutcome, userActed, scanDisposed>>
  /\ UNCHANGED camVars
  /\ UNCHANGED encVars

\* `await ai.generate({... prompt: sceneDescription})` returns: with media,
\* without media, or by throwing
SpeechReturns(o) ==
  /\ flowPc = "SynthesizingSpeech"
  /\ ttsOutcome' = o
  /\ flowPc' = IF o = "media" THEN "Encoding"
               ELSE IF CatchesSpeechFailure(variant) THEN "Complete"
               ELSE "Failed"
  /\ UNCHANGED <<variant, descOutput, encOutcome, flowResult, flowVoiceName>>
  /\ UNCHANGED <<uiVars, scanVars, scanObs, genVars, dbVars>>
  /\ UNCHANGED camVars
  /\ UNCHANGED encVars

\* `await toWav(audioBuffer)` resolves, or rejects through writer.on('error')
ToWavReturns(ok) ==
  /\ flowPc = "Encoding"
  /\ encOutcome' = IF ok THEN "resolved" ELSE "rejected"
  /\ IF ok
       THEN /\ flowPc' = "Complete"
            /\ flowResult' = [flowResult EXCEPT !.ttsAudioDataUri = FlowUri]
       ELSE /\ flowPc' = IF CatchesSpeechFailure(variant) THEN "Complete"
                         ELSE "Failed"
            /\ UNCHANGED flowResult
  /\ UNCHANGED <<variant, descOutput, ttsOutcome, flowVoiceName>>
  /\ UNCHANGED <<uiVars, scanVars, scanObs, genVars, dbVars>>
  /\ UNCHANGED camVars
  /\ UNCHANGED encVars

\* -------------------------------------- handleRescan after describeScene

\* the server action has returned to the client: the flow's locals are gone
FlowReturned ==
  /\ flowPc' = "Idle"
  /\ descOutput' = Pending
  /\ ttsOutcome' = Pending
  /\ encOutcome' = Pending
  /\ flowResult' = [sceneDescription |-> "", ttsAudioDataUri |-> EmptyUri]
  /\ UNCHANGED <<variant, flowVoiceName>>

\* handleRescan has returned: its locals (the voice its closure captured, the
\* entry it built) are gone
ScanLocalsGone ==
  /\ scanVoice' = "female"
  /\ scanEntry' = [id |-> 0, description |-> "", timestamp |-> 0]

\* the catch block of handleRescan and the setIsLoading(false) after it
ScanCatch ==
  /\ currentDescription' = SetState(ErrorMsg, currentDescription)
  /\ isLoading' = SetState(FALSE, isLoading)
  /\ scanReports' = scanReports + 1
  /\ scanOutcome' = "failed"
  /\ scanPc' = "idle"

\* `await describeScene(...)` resolved: show the description, push() a new
\* history ref under the closure's user and set() the entry
DescribeSceneResolved ==
  /\ scanPc = "describe"
  /\ flowPc = "Complete"
  /\ scanText' = flowResult.sceneDescription
  /\ currentDescription' = SetState(flowResult.sceneDescription, currentDescription)
  /\ scanEntry' = [id |-> clock, description |-> flowResult.sceneDescription,
                   timestamp |-> clock]
  /\ clock' = clock + 1
  /\ issued' = issued \cup {[op |-> "append", user |-> scanUser,
                             key |-> HistoryRef(scanUser)]}
  /\ scanSetCalls' = scanSetCalls + 1
  /\ scanPc' = "awaitSet"
  /\ UNCHANGED <<mounted, user, isCameraOn, camPending, isLoading,
                 isGeneratingAudio, audioSrc, voice, history>>
  /\ UNCHANGED <<scanUser, scanVoice, nScans, log, genVars>>
  /\ FlowReturned
  /\ UNCHANGED <<scanDescCalls, scanSpeechCalls, scanReports, scanAudioStarted,
                 scanOutcome, userActed, scanDisposed>>
  /\ UNCHANGED camVars
  /\ UNCHANGED encVars

\* `await describeScene(...)` rejected
DescribeSceneRejected ==
  /\ scanPc = "describe"
  /\ flowPc = "Failed"
  /\ ScanCatch
  /\ UNCHANGED <<mounted, user, isCameraOn, camPending, isGeneratingAudio,
                 audioSrc, voice, history>>
  /\ UNCHANGED <<scanUser, scanText, nScans>>
  /\ ScanLocalsGone
  /\ FlowReturned
  /\ UNCHANGED <<genVars, dbVars>>
  /\ UNCHANGED <<scanDescCalls, scanSpeechCalls, scanSetCalls, scanAudioStarted,
                 userActed, scanDisposed>>
  /\ UNCHANGED camVars
  /\ UNCHANGED encVars

\* `await set(newHistoryRef, newEntry)` resolved: the entry is in the log;
\* generateAudio(result.sceneDescription, voice) runs up to its await, or
\* returns at once and the scan ends
SetResolved ==
  /\ scanPc = "awaitSet"
  /\ log' = [log EXCEPT ![scanUser] = Append(@, scanEntry)]
  /\ IF GenerateAudioSkips(scanText)
       THEN /\ isLoading' = SetState(FALSE, isLoading)
            /\ scanPc' = "idle"
            /\ scanOutcome' = "ok"
            /\ ScanLocalsGone
            /\ UNCHANGED <<isGeneratingAudio, audioSrc, scanSpeechCalls,
                           scanAudioStarted>>
       ELSE /\ isGeneratingAudio' = SetState(TRUE, isGeneratingAudio)
            /\ audioSrc' = SetState(EmptyUri, audioSrc)
            /\ scanSpeechCalls' = scanSpeechCalls + 1
            /\ scanAudioStarted' = TRUE
            /\ scanPc' = "awaitAudio"
            /\ UNCHANGED <<isLoading, scanOutcome, scanVoice>>
            /\ scanEntry' = [id |-> 0, description |-> "", timestamp |-> 0]
  /\ UNCHANGED <<mounted, user, isCameraOn, camPending, currentDescription,
                 voice, history>>
  /\ UNCHANGED <<scanUser, scanText, nScans>>
  /\ UNCHANGED <<flowVars, genVars, issued, clock>>
  /\ UNCHANGED <<scanDescCalls, scanSetCalls, scanReports, userActed,
                 scanDisposed>>
  /\ UNCHANGED camVars
  /\ UNCHANGED encVars

\* `await set(newHistoryRef, newEntry)` rejected: control goes to the catch
SetRejected ==
  /\ scanPc = "awaitSet"
  /\ ScanCatch
  /\ UNCHANGED <<mounted, user, isCameraOn, camPending, isGeneratingAudio,
                 audioSrc, voice, history>>
  /\ UNCHANGED <<scanUser, scanText, nScans>>
  /\ ScanLocalsGone
  /\ UNCHANGED <<flowVars, genVars, dbVars>>
  /\ UNCHANGED <<scanDescCalls, scanSpeechCalls, scanSetCalls, scanAudioStarted,
                 userActed, scanDisposed>>
  /\ UNCHANGED camVars
  /\ UNCHANGED encVars

\* the ways `await textToSpeech({text, voice})` can end
SpeechOutcomes == {"uri", "empty", "threw"}

\* generateAudio after its await, called from handleRescan: the audio source
\* is set when a URI came back; isGeneratingAudio and isLoading are reset
ScanAudioReturns(o) ==
  /\ scanPc = "awaitAudio"
  /\ audioSrc' = IF o = "uri" THEN SetState(SpeechUri(scanText, scanVoice), audioSrc)
                 ELSE audioSrc
  /\ isGeneratingAudio' = SetState(FALSE, isGeneratingAudio)
  /\ isLoading' = SetState(FALSE, isLoading)
  /\ scanPc' = "idle"
  /\ scanOutcome' = "ok"
  /\ UNCHANGED <<mounted, user, isCameraOn, camPending, currentDescription,
                 voice, history>>
  /\ UNCHANGED <<scanUser, scanText, nScans>>
  /\ ScanLocalsGone
  /\ UNCHANGED <<flowVars, genVars, dbVars>>
  /\ UNCHANGED <<scanDescCalls, scanSpeechCalls, scanSetCalls, scanReports,
                 scanAudioStarted, userActed, scanDisposed>>
  /\ UNCHANGED camVars
  /\ UNCHANGED encVars

\* ------------------------------------------------------ voice change

\* handleVoiceChange: setVoice(newVoice), then generateAudio with the text
\* on display, up to its await (the Select is disabled while
\* isGeneratingAudio and reports only a changed value)
HandleVoiceChange(newVoice) ==
  /\ mounted
  /\ ~isGeneratingAudio
  /\ newVoice # voice
  /\ voice' = newVoice
  /\ userActed' = TRUE
  /\ IF GenerateAudioSkips(currentDescription)
       THEN UNCHANGED <<isGeneratingAudio, audioSrc, gens, nGens>>
       ELSE /\ nGens < MaxGens
            /\ nGens' = nGens + 1
            /\ isGeneratingAudio' = TRUE
            /\ audioSrc' = EmptyUri
            /\ gens' = gens \cup {[id |-> nGens + 1, text |-> currentDescription,
                                   voice |-> newVoice]}
  /\ UNCHANGED <<mounted, user, isCameraOn, camPending, isLoading,
                 currentDescription, history>>
  /\ UNCHANGED <<scanVars, flowVars, dbVars>>
  /\ UNCHANGED <<scanDescCalls, scanSpeechCalls, scanSetCalls, scanReports,
                 scanAudioStarted, scanOutcome, scanDisposed>>
  /\ UNCHANGED camVars
  /\ UNCHANGED encVars

\* generateAudio after its await, called from handleVoiceChange
VoiceAudioReturns(g, o) ==
  /\ g \in gens
  /\ gens' = gens \ {g}
  /\ audioSrc' = IF o = "uri" THEN SetState(SpeechUri(g.text, g.voice), audioSrc)
                 ELSE audioSrc
  /\ isGeneratingAudio' = SetState(FALSE, isGeneratingAudio)
  /\ UNCHANGED <<mounted, user, isCameraOn, camPending, isLoading,
                 currentDescription, voice, history, nGens>>
  /\ UNCHANGED <<scanVars, scanObs, flowVars, dbVars>>
  /\ UNCHANGED camVars
  /\ UNCHANGED encVars

\* ----------------------------------------------------------- history

\* handleClearHistory (the button is disabled while the list is empty)
HandleClearHistory ==
  /\ mounted
  /\ history # <<>>
  /\ HasUser(user)
  /\ issued' = issued \cup {[op |-> "clear", user |-> user,
                             key |-> HistoryRef(user)]}
  /\ log' = [u \in Users |-> IF HistoryRef(u) = HistoryRef(user) THEN <<>> ELSE log[u]]
  /\ history' = <<>>
  /\ userActed' = TRUE
  /\ UNCHANGED <<mounted, user, isCameraOn, camPending, isLoading,
                 isGeneratingAudio, audioSrc, currentDescription, voice>>
  /\ UNCHANGED <<scanVars, flowVars, genVars, clock>>
  /\ UNCHANGED <<scanDescCalls, scanSpeechCalls, scanSetCalls, scanReports,
                 scanAudioStarted, scanOutcome, scanDisposed>>
  /\ UNCHANGED camVars
  /\ UNCHANGED encVars

\* the onValue listener of the history effect: the latest entries, latest
\* first; the latest description replaces the initial placeholder
OnValue ==
  /\ mounted
  /\ user # NoUser
  /\ LET parsedHistory == ListRecent(log[user], MAX_HISTORY_ITEMS)
     IN /\ history' = parsedHistory
        /\ currentDescription' =
             IF Len(parsedHistory) > 0 /\ currentDescription = Placeholder
               THEN parsedHistory[1].description
               ELSE currentDescription
  /\ <<history', currentDescription'>> # <<history, currentDescription>>
  /\ UNCHANGED <<mounted, user, isCameraOn, camPending, isLoading,
                 isGeneratingAudio, audioSrc, voice>>
  /\ UNCHANGED <<scanVars, scanObs, flowVars, genVars, dbVars>>
  /\ UNCHANGED camVars
  /\ UNCHANGED encVars

\* ---------------------------------------------------------------- Next
Next ==
  \/ ToggleCameraOff
  \/ ToggleCameraOn
  \/ \E granted \in BOOLEAN : GetUserMediaReturns(granted)
  \/ Unmount
  \/ \E u \in Users \cup {NoUser} : AuthStateChanged(u)
  \/ HandleRescan
  \/ HandleRescanNoContext
  \/ \E out \in Texts \cup {Absent, Threw} : DescriptionReturns(out)
  \/ \E o \in {"media", "nomedia", "threw"} : SpeechReturns(o)
  \/ \E ok \in BOOLEAN : ToWavReturns(ok)
  \/ DescribeSceneResolved
  \/ DescribeSceneRejected
  \/ SetResolved
  \/ SetRejected
  \/ \E o \in SpeechOutcomes : ScanAudioReturns(o)
  \/ \E v \in Voices : HandleVoiceChange(v)
  \/ \E g \in gens, o \in SpeechOutcomes : VoiceAudioReturns(g, o)
  \/ HandleClearHistory
  \/ OnValue

Spec == Init /\ [][Next]_vars

\* ------------------------------------- the audio step and toWav alone

\* PCM buffers the speech service can answer with
PcmSamples == {<<>>, <<97>>, <<0, 255>>, <<1, 2, 3>>, <<77, 97, 110, 33>>}

\* parameters toWav can be called with
ParamSamples == [channels : {0, 1, 2}, rate : {0, 24000}, sampleWidth : {2}]

\* chunks the writer can hand to its 'data' listener, and the sequences of
\* them it can emit before 'end'
ChunkSamples == {<<82, 73, 70, 70>>, <<0, 255>>, <<7>>}

WriterEmissions ==
  {<<>>} \cup {<<c>> : c \in ChunkSamples}
         \cup {<<c, d>> : c \in ChunkSamples, d \in ChunkSamples}

\* the inputs: the flow's audio step on what ai.generate returned (with or
\* without media), or toWav called with a buffer and parameters
EncInit ==
  /\ MainInit
  /\ log = [u \in Users |-> <<>>]
  /\ encPc = "start"
  /\ encIn \in
       {[caller |-> "flow", media |-> FALSE, pcm |-> <<>>, params |-> DefaultWavParams]}
       \cup {[caller |-> "flow", media |-> TRUE, pcm |-> b, params |-> DefaultWavParams]
               : b \in PcmSamples}
       \cup {[caller |-> "direct", media |-> TRUE, pcm |-> b, params |-> p]
               : b \in PcmSamples, p \in ParamSamples}
  /\ encWriter = NoWriter
  /\ encResult = NoResult

\* the flow when toWav or ai.generate failed: '' under the try/catch,
\* otherwise the error leaves the flow
FlowAudioFailure ==
  IF CatchesSpeechFailure(variant)
    THEN [NoResult EXCEPT !.kind = "returned"]
    ELSE [NoResult EXCEPT !.kind = "threw"]

\* `if (ttsResult.media)` is false (variant A), `if (!ttsResult.media) throw`
\* (variant B)
EncFlowNoMedia ==
  /\ encPc = "start"
  /\ encIn.caller = "flow"
  /\ ~encIn.media
  /\ encResult' = FlowAudioFailure
  /\ encPc' = "done"
  /\ UNCHANGED <<encIn, encWriter, mainVars>>

\* toWav up to writer.end(): the writer is constructed with the parameters
\* as given and the whole buffer is written to it.  The flow passes the
\* buffer decoded from media.url and no parameters.
EncToWavCall ==
  /\ encPc = "start"
  /\ encIn.media
  /\ LET pcmData == IF encIn.caller = "flow"
                      THEN BufferFromBase64(AfterComma(MediaUrl(encIn.pcm)))
                      ELSE encIn.pcm
     IN encWriter' = [options |-> WriterOptions(encIn.params), constructed |-> TRUE,
                      written |-> pcmData, emitted |-> <<>>]
  /\ encPc' = "writing"
  /\ UNCHANGED <<encIn, encResult, mainVars>>

\* the writer emitted its chunks and 'end': toWav resolves with the base64
\* of the chunks concatenated, and the flow prefixes it
EncWriterEnd(chunks) ==
  /\ encPc = "writing"
  /\ encWriter' = [encWriter EXCEPT !.emitted = chunks]
  /\ LET base64 == Base64Encode(BufferConcat(chunks))
     IN encResult' =
          IF encIn.caller = "flow"
            THEN [NoResult EXCEPT !.kind = "returned", !.uri = WavDataUri(base64)]
            ELSE [NoResult EXCEPT !.kind = "resolved", !.base64 = base64]
  /\ encPc' = "done"
  /\ UNCHANGED <<encIn, mainVars>>

\* the writer emitted 'error': toWav rejects with the writer's error
EncWriterError ==
  /\ encPc = "writing"
  /\ encResult' =
       IF encIn.caller = "flow"
         THEN FlowAudioFailure
         ELSE [NoResult EXCEPT !.kind = "rejected", !.error = "writer error"]
  /\ encPc' = "done"
  /\ UNCHANGED <<encIn, encWriter, mainVars>>

EncNext ==
  \/ EncFlowNoMedia
  \/ EncToWavCall
  \/ \E chunks \in WriterEmissions : EncWriterEnd(chunks)
  \/ EncWriterError

EncSpec == EncInit /\ [][EncNext]_vars

\* ============================================================== claims

\* C1: when the description service returns an empty or absent text field,
\* the scan fails and no speech-synthesis call is made for it.
C1_EmptyDescriptionFailsScan ==
  descOutput \in {Absent, ""} => (flowPc = "Failed" /\ scanSpeechCalls = 0)

\* C2: in every describeScene flow, once the description step gave a
\* non-empty text and the speech service threw or returned no media, the
\* flow does not fail: it completes with an empty ttsAudioDataUri and the
\* non-empty sceneDescription.
C2_SpeechFailureNeverFailsScan ==
  (descOutput \in Texts \ {""} /\ ttsOutcome \in {"threw", "nomedia"})
    => /\ flowPc = "Complete"
       /\ flowResult.ttsAudioDataUri = EmptyUri
       /\ flowResult.sceneDescription # ""

\* C3: once describeScene has succeeded for a scan, the scan is never
\* reported as failed, whatever the history write does.
C3_HistoryFailureNeverSurfaces ==
  scanText # Pending => (scanReports = 0 /\ scanOutcome # "failed")

\* C4: the flow goes Idle, DescribingScene, SynthesizingSpeech, Encoding,
\* Complete: speech synthesis starts only from DescribingScene with the
\* description text returned, encoding starts only from SynthesizingSpeech
\* with media returned, Complete is entered only from SynthesizingSpeech or
\* Encoding, and in the variant with policy A Failed is entered only from
\* DescribingScene.
C4_ScanOrder ==
  [][ /\ (flowPc' = "DescribingScene" /\ flowPc # "DescribingScene")
           => flowPc = "Idle"
      /\ (flowPc' = "SynthesizingSpeech" /\ flowPc # "SynthesizingSpeech")
           => (flowPc = "DescribingScene" /\ descOutput' \in Texts)
      /\ (flowPc' = "Encoding" /\ flowPc # "Encoding")
           => (flowPc = "SynthesizingSpeech" /\ ttsOutcome' = "media")
      /\ (flowPc' = "Complete" /\ flowPc # "Complete")
           => flowPc \in {"SynthesizingSpeech", "Encoding"}
      /\ (variant = "A" /\ flowPc' = "Failed" /\ flowPc # "Failed")
           => flowPc = "DescribingScene"
    ]_vars

\* C4 witness: under policy A the flow has completed although the encoder
\* rejected, after description, synthesis and encoding in that order.
C4_Witness ==
  /\ variant = "A"
  /\ flowPc = "Complete"
  /\ descOutput \in Texts
  /\ ttsOutcome = "media"
  /\ encOutcome = "rejected"

\* C5: the history append is fire-and-forget: once the write of a scan has
\* been issued the scan does not wait for it, so its audio generation has
\* been started (unless generateAudio has nothing to speak); the write is
\* issued at most once.
C5_AppendIsFireAndForget ==
  /\ scanSetCalls <= 1
  /\ (scanSetCalls > 0 /\ scanOutcome = "running")
       => (scanAudioStarted \/ GenerateAudioSkips(scanText))

\* C6: after a scan has failed and before the next user action, the text on
\* display is the fixed error string and the audio source is empty.
C6_FailedScanLeavesAudioEmpty ==
  (mounted /\ scanOutcome = "failed" /\ ~userActed)
    => (currentDescription = ErrorMsg /\ audioSrc = EmptyUri)

C8_OneCallEachPerScan ==
  /\ scanDescCalls <= 1
  /\ scanSpeechCalls <= 1
  /\ scanReports <= 1
  /\ scanOutcome \in {"ok", "failed"} => scanDescCalls = 1
  /\ scanOutcome = "failed" => scanReports = 1

\* C9: after the caller disposed of a scan whose description or synthesis
\* call was in flight, the steps of that scan change neither the text on
\* display nor the audio source nor the history log.
C9_DisposedResponseDiscarded ==
  [][ (scanDisposed /\ scanPc # "idle" /\ scanPc' # scanPc)
        => UNCHANGED <<currentDescription, audioSrc, log>> ]_vars

\* C14: 'male' maps to 'Achernar' and 'female' to 'Algenib', an absent
\* selector defaults to 'female', and every speech call of a scan uses the
\* voice mapped from the user's current selection.
C14_VoiceOfCurrentSelection ==
  /\ VoiceName("male") = "Achernar"
  /\ VoiceName("female") = "Algenib"
  /\ ParseVoice("<absent>") = "female"
  /\ flowPc = "SynthesizingSpeech" => flowVoiceName = VoiceName(voice)
  /\ scanPc = "awaitAudio" => VoiceName(scanVoice) = VoiceName(voice)

\* C17: whenever isLoading is false the text on display is not the
\* transient 'Analyzing scene...'.
C17_NotAnalyzingWhenIdle ==
  ~isLoading => currentDescription # Analyzing

\* C18: no speech call made by generateAudio carries the empty text, the
\* initial placeholder, 'Analyzing scene...' or the scan-failure message.
C18_SpeechOnlyForDescriptions ==
  /\ \A g \in gens : g.text \notin {"", Placeholder, Analyzing, ErrorMsg}
  /\ scanPc = "awaitAudio" => scanText \notin {"", Placeholder, Analyzing, ErrorMsg}

\* C16: whenever the camera is shown as off and no startCamera call is
\* pending, no acquired stream has a live track; and no stream is dropped
\* from streamRef by a second stream while its tracks are live.
C16_NoLiveStreamWhenOff ==
  /\ ~orphanLive
  /\ (~isCameraOn /\ camPending = 0) => streamRef = "null"

\* the list h shows at most MAX_HISTORY_ITEMS entries of the log l, they are
\* entries with the latest timestamps of l, and they are ordered latest
\* first
IsRecentView(h, l) ==
  LET shown == {h[i] : i \in 1..Len(h)}
      all == {l[i] : i \in 1..Len(l)}
  IN /\ Len(h) <= MAX_HISTORY_ITEMS
     /\ Len(h) = IF Len(l) <= MAX_HISTORY_ITEMS THEN Len(l) ELSE MAX_HISTORY_ITEMS
     /\ Cardinality(shown) = Len(h)
     /\ shown \subseteq all
     /\ \A i, j \in 1..Len(h) : i < j => h[i].timestamp >= h[j].timestamp
     /\ \A e \in all \ shown : \A i \in 1..Len(h) : h[i].timestamp >= e.timestamp

\* C15: whenever the history on display changes (the listener delivers, or
\* the user clears), it holds at most 10 entries, they are the entries with
\* the latest timestamps of the user's log, latest first; after a clear it
\* is empty.
C15_HistoryIsRecentView ==
  [][ history' # history
        => (user' \in Users /\ IsRecentView(history', log'[user'])) ]_vars

\* C15 witness: the list shows 10 entries of a log that holds more.
C15_Witness ==
  /\ user \in Users
  /\ Len(history) = MAX_HISTORY_ITEMS
  /\ Len(log[user]) > MAX_HISTORY_ITEMS
  /\ history[1].id > 0

\* the bytes of a sequence of chunks, one after the other
RECURSIVE JoinChunks(_, _)
JoinChunks(chunks, n) ==
  IF n = 0 THEN <<>> ELSE JoinChunks(chunks, n - 1) \o chunks[n]

\* C12: toWav called with a zero sample rate or a zero channel count fails
\* with an InvalidParameter error and gives nothing to the writer, which
\* emits no header and no bytes.
C12_ZeroParametersRejected ==
  (encIn.caller = "direct" /\ (encIn.params.rate = 0 \/ encIn.params.channels = 0))
    => /\ ~encWriter.constructed
       /\ encWriter.emitted = <<>>
       /\ encPc = "done" => (encResult.kind = "rejected"
                             /\ encResult.error = "InvalidParameter")

====
